---- MODULE Spec2Model ----
(***************************************************************************)
(* A model of ffau's streaming decode/resample pipeline:                   *)
(*   PackedS16Stream.Read -> Resampler.read_raw -> AudioStream.read_raw    *)
(* The demuxer (av_read_frame), the codec (avcodec_decode_audio4) and the  *)
(* converter (swr_convert) are external libraries: each is modelled as a   *)
(* nondeterministic choice over the results its interface allows.          *)
(***************************************************************************)
EXTENDS Integers, Sequences, FiniteSets, TLC

\* ------------------------------------------------------------------ bounds
MaxRate == 2        \* the decoder's sample rate; targets go up to MaxRate + 1
MaxPackets == 2     \* packets the demuxer still holds when the stream is opened
MaxPktSize == 2     \* bytes in one packet
MaxSamples == 2     \* frames (nb_samples) in one decoded frame
MaxCodecBuf == 1    \* frames the codec can hold back internally
MaxSwrBuf == 2      \* output frames the converter can hold back internally

Min(a, b) == IF a < b THEN a ELSE b

\* ------------------------------------------------------------- value types
\* SampleFmt: the ten storage tags and the "no format" sentinel.
PackedFmts == {"PackedU8s", "PackedS16s", "PackedS32s", "PackedFloats", "PackedDoubles"}
PlanarFmts == {"PlanarU8s", "PlanarS16s", "PlanarS32s", "PlanarFloats", "PlanarDoubles"}
SampleFmt == {"NoSamples"} \cup PackedFmts \cup PlanarFmts

\* ChannelLayout is a bit mask: 0 (no channels), 4 = DefaultLayout(1),
\* 3 = DefaultLayout(2).
Layouts == {0, 3, 4}

RECURSIVE PopCount(_)
PopCount(m) == IF m = 0 THEN 0 ELSE (m % 2) + PopCount(m \div 2)

AudioFormat == [Rate : 1..(MaxRate + 1), Storage : SampleFmt, Layout : Layouts]

\* Equal without the storage comparison.
EqualIgnoresStorage(this, that) ==
    this.Rate = that.Rate /\ this.Layout = that.Layout

Equal(this, that) ==
    this.Rate = that.Rate /\ this.Storage = that.Storage /\ this.Layout = that.Layout

NumChannels(format) == PopCount(format.Layout)

NumPlanes(format) ==
    IF format.Storage \in PackedFmts THEN 1
    ELSE IF format.Storage \in PlanarFmts THEN NumChannels(format)
    ELSE 0

\* --------------------------------------------------------------- the state
VARIABLES
    audio,      \* the AudioStream (Decoder Stage)
    demux,      \* the demuxer behind it: packets left, packets not yet released
    codecBuf,   \* frames the codec holds back
    resamp,     \* the Resampler (Resample Stage), "none" until one is built
    swrBuf,     \* output frames the converter holds back
    heap,       \* live allocations: converter context, plane table, buffer, codec, frame
    top,        \* the stage the caller holds: "audio", "resamp" or "nil"
    reader,     \* the PackedS16Stream, "none" until one is built
    op,         \* the last operation and the stages whose read_raw it ran
    cret,       \* what Resample and NewPackedS16Stream returned
    aret,       \* what the last AudioStream.read_raw call did and returned
    rret,       \* what the last Resampler.read_raw call did and returned
    pret        \* what the last PackedS16Stream.Read call returned

\* A read_raw result: the plane table, the frame count, the error.
Ret(data, nf, err) == [data |-> data, nf |-> nf, err |-> err]

\* ------------------------------------------------- the external libraries
\* av_read_frame: 0 and a packet while packets are left, AVERROR_EOF once
\* they are not, or another error at any time. A failed read leaves the
\* packet blank (size 0).
DemuxOutcomes(left) ==
    (IF left > 0
        THEN {[r |-> "ok", size |-> s] : s \in 1..MaxPktSize}
        ELSE {[r |-> "EOF", size |-> 0]})
    \cup {[r |-> "error", size |-> 0]}

\* avcodec_decode_audio4 on a packet of `size` bytes with `cb` frames held
\* back: the consumed byte count n (negative: the decode failed; it may
\* exceed size, which the caller clamps), the got_frame flag, the frame's
\* nb_samples, and the frames held back afterwards.  An empty packet asks
\* the codec to drain: it hands out a held-back frame while it has one and
\* reports no frame from then on.
CodecOutcomes(size, cb) ==
    IF size > 0
    THEN {[n |-> -1, got |-> FALSE, ns |-> 0, cb |-> cb]}
         \cup {[n |-> n, got |-> TRUE, ns |-> ns, cb |-> cb] :
                  n \in 0..(size + 1), ns \in 0..MaxSamples}
         \cup {[n |-> n, got |-> FALSE, ns |-> 0, cb |-> c] :
                  n \in 0..(size + 1), c \in {cb, Min(cb + 1, MaxCodecBuf)}}
    ELSE IF cb > 0
         THEN {[n |-> n, got |-> TRUE, ns |-> ns, cb |-> cb - 1] :
                  n \in 0..1, ns \in 0..MaxSamples}
         ELSE {[n |-> n, got |-> FALSE, ns |-> 0, cb |-> 0] : n \in 0..1}

\* ----------------------------------------------------------- Decoder Stage
\* read_frame leaving the previous packet, rewound to its full size, in
\* flight when the read does not deliver one.
read_frameRewindsOnFailure(a, d, o) ==
    LET pulled == IF o.r = "ok" THEN 1 ELSE 0
    IN [audio |-> IF o.r = "ok"
                  THEN [a EXCEPT !.pktSize = o.size, !.pktFull = o.size, !.pktPos = 0]
                  ELSE [a EXCEPT !.pktSize = a.pktFull, !.pktPos = 0],
        demux |-> [left |-> d.left - pulled, unfreed |-> d.unfreed + pulled],
        err |-> IF o.r = "ok" THEN "nil" ELSE IF o.r = "EOF" THEN "EOF" ELSE "demux error"]

\* AudioStream.read_frame: releases the previous packet if its original
\* data pointer was kept (orig is never assigned, so it never is), then
\* pulls the next packet.
read_frame(a, d, o) ==
    LET freed == IF a.origData # "nil" THEN 1 ELSE 0
        pulled == IF o.r = "ok" THEN 1 ELSE 0
    IN [audio |-> [a EXCEPT !.pktSize = o.size, !.pktFull = o.size, !.pktPos = 0],
        demux |-> [left |-> d.left - pulled,
                   unfreed |-> d.unfreed - freed + pulled],
        err |-> IF o.r = "ok" THEN "nil" ELSE IF o.r = "EOF" THEN "EOF" ELSE "demux error"]

\* Clamp trusting the codec's count.
Unclamped(n, size) == n

\* Clamp leaving the packet where it is.
ClampToNothing(n, size) == 0

\* decode's defensive clamp of the consumed byte count.
Clamp(n, size) == IF n > size THEN size ELSE n

\* decode dropping the packet the codec failed on.
decodeDropsFailedPacket(a, o) ==
    IF o.n < 0
    THEN [audio |-> [a EXCEPT !.pktSize = 0, !.pktPos = a.pktPos + a.pktSize],
          got |-> FALSE, err |-> "decode error"]
    ELSE LET n == Clamp(o.n, a.pktSize)
         IN [audio |-> [a EXCEPT !.pktSize = a.pktSize - n, !.pktPos = a.pktPos + n],
             got |-> o.got, err |-> "nil"]

\* AudioStream.decode: submits the in-flight packet, advances its cursor.
decode(a, o) ==
    IF o.n < 0
    THEN [audio |-> a, got |-> FALSE, err |-> "decode error"]
    ELSE LET n == Clamp(o.n, a.pktSize)
         IN [audio |-> [a EXCEPT !.pktSize = a.pktSize - n, !.pktPos = a.pktPos + n],
             got |-> o.got, err |-> "nil"]

\* NeedPacket without the test of the in-flight packet.
NeedPacketWhileBytesRemain(a) == ~a.framesEOF

\* NeedPacket without the end-of-stream test.
NeedPacketIgnoresEOF(a) == a.pktSize = 0

\* read_raw pulls a packet only when the in-flight one is used up and the
\* demuxer has not reported end-of-stream.
NeedPacket(a) == a.pktSize = 0 /\ ~a.framesEOF

\* AudioResult with the end-of-stream test ahead of the got_frame test.
AudioResultEOFFirst(gotFrame, framesEOF, ns) ==
    IF framesEOF THEN Ret("nil", 0, "EOF")
    ELSE IF ~gotFrame THEN Ret("nil", 0, "nil")
    ELSE Ret("frame", ns, "nil")

\* The tail of AudioStream.read_raw: the result once decode has succeeded.
AudioResult(gotFrame, framesEOF, ns) ==
    IF ~gotFrame
    THEN IF framesEOF THEN Ret("nil", 0, "EOF") ELSE Ret("nil", 0, "nil")
    ELSE Ret("frame", ns, "nil")

\* What one call left behind, for the properties: the packet read's outcome
\* (rf), the packet size submitted to the codec (sub, -1: nothing submitted),
\* the codec's consumed count, its got_frame flag and its frame's nb_samples.
Trace(ret, rf, sub, n, got, ns) ==
    [data |-> ret.data, nf |-> ret.nf, err |-> ret.err,
     rf |-> rf, sub |-> sub, n |-> n, got |-> got, ns |-> ns]

\* AudioStream.read_raw after the packet read: decode and the result.
AudioDecodeStep(a, d, cb, rf) ==
    {LET dec == decode(a, co)
     IN IF dec.err # "nil"
        THEN [audio |-> dec.audio, demux |-> d, codecBuf |-> cb,
              ret |-> Trace(Ret("nil", 0, dec.err), rf, a.pktSize, co.n, FALSE, 0)]
        ELSE [audio |-> dec.audio, demux |-> d, codecBuf |-> co.cb,
              ret |-> Trace(AudioResult(dec.got, dec.audio.framesEOF, co.ns),
                            rf, a.pktSize, co.n, dec.got, co.ns)]
     : co \in CodecOutcomes(a.pktSize, cb)}

\* AudioReadRaw taking every failed packet read for the end of the stream.
AudioReadRawFailureIsEOF(a, d, cb) ==
    IF NeedPacket(a)
    THEN UNION {
            LET rf == read_frame(a, d, do)
            IN IF rf.err # "nil"
               THEN AudioDecodeStep([rf.audio EXCEPT !.framesEOF = TRUE], rf.demux, cb,
                                    IF rf.err = "EOF" THEN "EOF" ELSE "error")
               ELSE AudioDecodeStep(rf.audio, rf.demux, cb, "ok")
            : do \in DemuxOutcomes(d.left)}
    ELSE AudioDecodeStep(a, d, cb, "none")

\* AudioStream.read_raw: every outcome of one call, as the new state of the
\* stage, the demuxer and the codec, and the result.
AudioReadRaw(a, d, cb) ==
    IF NeedPacket(a)
    THEN UNION {
            LET rf == read_frame(a, d, do)
            IN IF rf.err = "EOF"
               THEN AudioDecodeStep([rf.audio EXCEPT !.framesEOF = TRUE], rf.demux, cb, "EOF")
               ELSE IF rf.err # "nil"
               THEN {[audio |-> rf.audio, demux |-> rf.demux, codecBuf |-> cb,
                      ret |-> Trace(Ret("nil", 0, rf.err), "error", -1, 0, FALSE, 0)]}
               ELSE AudioDecodeStep(rf.audio, rf.demux, cb, "ok")
            : do \in DemuxOutcomes(d.left)}
    ELSE AudioDecodeStep(a, d, cb, "none")

\* ---------------------------------------------------------- Resample Stage
CeilDiv(a, b) == (a + b - 1) \div b

RECURSIVE GCD(_, _)
GCD(a, b) == IF b = 0 THEN a ELSE GCD(b, a % b)

RECURSIVE IsPow2(_)
IsPow2(n) == n = 1 \/ (n > 1 /\ n % 2 = 0 /\ IsPow2(n \div 2))

\* C.int(math.Ceil(float64(nf) * sratio)) with sratio = float64(to.Rate) /
\* float64(from.Rate): the exact ceiling, or one more when the exact product
\* is an integer and the ratio has no exact float64 value (the rounded
\* product may land just above that integer).
RequiredCaps(nf, toRate, fromRate) ==
    LET exact == CeilDiv(nf * toRate, fromRate)
    IN IF nf > 0 /\ (nf * toRate) % fromRate = 0
          /\ ~IsPow2(fromRate \div GCD(toRate, fromRate))
       THEN {exact, exact + 1}
       ELSE {exact}

\* av_get_bytes_per_sample.
BytesPerSample(storage) ==
    IF storage \in {"PackedU8s", "PlanarU8s"} THEN 1
    ELSE IF storage \in {"PackedS16s", "PlanarS16s"} THEN 2
    ELSE IF storage \in {"PackedS32s", "PlanarS32s", "PackedFloats", "PlanarFloats"} THEN 4
    ELSE IF storage \in {"PackedDoubles", "PlanarDoubles"} THEN 8
    ELSE 0

\* swr_convert with sb output frames held back, room for outCount frames
\* per plane and inCount input frames: the output frame count (negative: an
\* error) and the frames held back afterwards.  With input, the converter
\* may emit anything from nothing (it only buffered) to all it has; with no
\* input it flushes, at least one frame while it holds any.
SwrOutcomes(sb, outCount, inCount, toRate, fromRate) ==
    {[nfout |-> -1, sb |-> sb]} \cup
    IF inCount > 0
    THEN UNION {
            LET total == sb + c
                hi == Min(outCount, total)
                lo == Min(hi, IF total > MaxSwrBuf THEN total - MaxSwrBuf ELSE 0)
            IN {[nfout |-> x, sb |-> Min(MaxSwrBuf, total - x)] : x \in lo..hi}
            : c \in {(inCount * toRate) \div fromRate, CeilDiv(inCount * toRate, fromRate)}}
    ELSE LET hi == Min(outCount, sb)
         IN IF hi > 0
            THEN {[nfout |-> x, sb |-> sb - x] : x \in 1..hi}
            ELSE {[nfout |-> 0, sb |-> sb]}

\* MustGrow reallocating whenever the capacities differ.
MustGrowOnAnyChange(have, need) == have # need

\* Whether checkBuf reallocates for a required capacity.
MustGrow(have, need) == have < need

\* malloc in checkBuf: a block (TRUE) or NULL (FALSE); not called at all
\* when the buffer is large enough.
MallocOutcomes(have, need) == IF MustGrow(have, need) THEN BOOLEAN ELSE {TRUE}

\* Resampler.checkBuf: grows the output buffer to nf frames per plane and
\* re-points the plane table; ok is malloc's outcome.  h is the heap.
checkBuf(rs, h, nf, ok) ==
    IF MustGrow(rs.nf, nf)
    THEN LET bpc == nf * BytesPerSample(rs.fmt.Storage)
             nbytes == bpc * NumChannels(rs.fmt)
             freed == IF rs.buf # "nil" THEN 1 ELSE 0
         IN IF ~ok
            THEN [resamp |-> [rs EXCEPT !.buf = "nil", !.bufLive = FALSE],
                  heap |-> [h EXCEPT !.buf = h.buf - freed],
                  err |-> "alloc error", realloc |-> TRUE]
            ELSE [resamp |-> [rs EXCEPT !.buf = "allocated", !.bufLive = TRUE,
                                        !.bufBytes = nbytes,
                                        !.data = [i \in 1..rs.nplanes |-> (i - 1) * bpc],
                                        !.nf = nf],
                  heap |-> [h EXCEPT !.buf = h.buf - freed + 1],
                  err |-> "nil", realloc |-> TRUE]
    ELSE [resamp |-> rs, heap |-> h, err |-> "nil", realloc |-> FALSE]

\* The tail of Resampler.read_raw: the result for the converter's count.
ResampResult(nfout) ==
    IF nfout = 0 THEN Ret("nil", 0, "EOF") ELSE Ret("resamp.data", nfout, "nil")

\* What one Resampler.read_raw call left behind: whether it pulled from the
\* source (pulled), whether it invoked the converter (conv) and with how
\* many input frames (inNf) on which input planes (inData), the capacity
\* required (need) and whether the buffer was reallocated (realloc).
RTrace(ret, pulled, conv, inNf, need, realloc, inData) ==
    [data |-> ret.data, nf |-> ret.nf, err |-> ret.err, pulled |-> pulled,
     conv |-> conv, inNf |-> inNf, need |-> need, realloc |-> realloc,
     inData |-> inData]

\* Resampler.read_raw from the converter call on.
ResampConvert(rs, h, a, d, cb, sb, ar, pulled, inNf, need, realloc) ==
    {[resamp |-> rs, heap |-> h, audio |-> a, demux |-> d, codecBuf |-> cb,
      swrBuf |-> so.sb, aret |-> ar,
      ret |-> RTrace(ResampResult(so.nfout), pulled, TRUE, inNf, need, realloc,
                     IF pulled THEN ar.data ELSE "nil")]
     : so \in SwrOutcomes(sb, rs.nf, inNf, rs.sratio.num, rs.sratio.den)}

\* What the Resampler gets from its source's read_raw: the planes, the
\* frame count and the error, and nothing of how the source came to them.
Returned(r) ==
    [r EXCEPT !.ret = Trace(Ret(r.ret.data, r.ret.nf, r.ret.err), "none", -1, 0, FALSE, 0)]

\* SourceFailed taking the source's error for the end of the stream.
SourceFailedIsEOF(rs, h, sb, src) ==
    ResampConvert([rs EXCEPT !.sourceEOF = TRUE], h, src.audio, src.demux,
                  src.codecBuf, sb, src.ret, TRUE, 0, 0, FALSE)

\* Resampler.read_raw when its source returned an error other than io.EOF:
\* the error is returned at once, the Resampler is left as it was.
SourceFailed(rs, h, sb, src) ==
    {[resamp |-> rs, heap |-> h, audio |-> src.audio, demux |-> src.demux,
      codecBuf |-> src.codecBuf, swrBuf |-> sb, aret |-> src.ret,
      ret |-> RTrace(Ret("nil", 0, src.ret.err), TRUE, FALSE, 0, 0, FALSE, "nil")]}

\* SourceEmpty handing the source's zero frames on to the converter.
SourceEmptyConverts(rs, h, sb, src) ==
    ResampConvert(rs, h, src.audio, src.demux, src.codecBuf, sb, src.ret,
                  TRUE, 0, 0, FALSE)

\* Resampler.read_raw when its source returned zero frames and no error:
\* zero frames and no error are returned at once.
SourceEmpty(rs, h, sb, src) ==
    {[resamp |-> rs, heap |-> h, audio |-> src.audio, demux |-> src.demux,
      codecBuf |-> src.codecBuf, swrBuf |-> sb, aret |-> src.ret,
      ret |-> RTrace(Ret("nil", 0, "nil"), TRUE, FALSE, 0, 0, FALSE, "nil")]}

\* InDrain forgetting that the source is exhausted.
InDrainNever(rs) == FALSE

\* Resampler.read_raw pulls from its source unless sourceEOF is set.
InDrain(rs) == rs.sourceEOF

\* Resampler.read_raw: every outcome of one call.
ResamplerReadRaw(rs, h, a, d, cb, sb, ar) ==
    IF ~InDrain(rs)
    THEN UNION {
           IF src.ret.err = "EOF"
           THEN ResampConvert([rs EXCEPT !.sourceEOF = TRUE], h, src.audio, src.demux,
                              src.codecBuf, sb, src.ret, TRUE, 0, 0, FALSE)
           ELSE IF src.ret.err # "nil"
           THEN SourceFailed(rs, h, sb, src)
           ELSE IF src.ret.nf = 0
           THEN SourceEmpty(rs, h, sb, src)
           ELSE UNION { UNION {
                  LET cbuf == checkBuf(rs, h, need, ok)
                  IN IF cbuf.err # "nil"
                     THEN {[resamp |-> cbuf.resamp, heap |-> cbuf.heap, audio |-> src.audio,
                            demux |-> src.demux, codecBuf |-> src.codecBuf, swrBuf |-> sb,
                            aret |-> src.ret,
                            ret |-> RTrace(Ret("nil", 0, cbuf.err), TRUE, FALSE, src.ret.nf,
                                           need, cbuf.realloc, "nil")]}
                     ELSE ResampConvert(cbuf.resamp, cbuf.heap, src.audio, src.demux,
                                        src.codecBuf, sb, src.ret, TRUE, src.ret.nf,
                                        need, cbuf.realloc)
                  : ok \in MallocOutcomes(rs.nf, need)}
                  : need \in RequiredCaps(src.ret.nf, rs.sratio.num, rs.sratio.den)}
           : src \in {Returned(r) : r \in AudioReadRaw(a, d, cb)}}
    ELSE ResampConvert(rs, h, a, d, cb, sb, ar, FALSE, 0, 0, FALSE)

\* Resample: the source itself when it is already in the requested format,
\* else a new Resampler.  o is what the allocations do: "ok", or the first
\* one that fails.  A failure after swr_alloc_set_opts returns without
\* freeing the context.
ResampleOutcomes == {"ok", "swr_alloc_set_opts fails", "swr_init fails", "malloc fails"}

\* The Resampler value Resample starts from: no context, nothing allocated.
NoResampler(from, to) ==
    [fmt |-> to, ctx |-> "nil", source |-> "audio", sourceEOF |-> FALSE,
     sratio |-> [num |-> 0, den |-> 1], data |-> <<>>, nplanes |-> 0,
     nf |-> 0, buf |-> "nil", bufLive |-> FALSE, bufBytes |-> 0]

\* A plane table entry that was never written.
Uninit == -1

NewResampler(from, to) ==
    [fmt |-> to, ctx |-> "allocated", source |-> "audio", sourceEOF |-> FALSE,
     sratio |-> [num |-> to.Rate, den |-> from.Rate],
     data |-> [i \in 1..NumPlanes(from) |-> Uninit], nplanes |-> NumPlanes(from),
     nf |-> 0, buf |-> "nil", bufLive |-> FALSE, bufBytes |-> 0]

Resample(a, h, to, o) ==
    LET from == a.fmt
    IN IF Equal(from, to)
       THEN [stream |-> "audio", err |-> "nil", resamp |-> NoResampler(from, to), heap |-> h]
       ELSE IF o = "swr_alloc_set_opts fails"
       THEN [stream |-> "nil", err |-> "couldn't allocate resampling context",
             resamp |-> NoResampler(from, to), heap |-> h]
       ELSE IF o = "swr_init fails"
       THEN [stream |-> "nil", err |-> "swr_init",
             resamp |-> NoResampler(from, to), heap |-> [h EXCEPT !.ctx = h.ctx + 1]]
       ELSE IF o = "malloc fails"
       THEN [stream |-> "nil", err |-> "couldn't allocate resampler channel pointers",
             resamp |-> NoResampler(from, to), heap |-> [h EXCEPT !.ctx = h.ctx + 1]]
       ELSE [stream |-> "resamp", err |-> "nil", resamp |-> NewResampler(from, to),
             heap |-> [h EXCEPT !.ctx = h.ctx + 1, !.data = h.data + 1]]

\* Resampler.Close and AudioStream.Close: the releases, in order.
AudioClose(a) ==
    <<"avcodec_close">> \o (IF a.frame # "nil" THEN <<"av_frame_free">> ELSE <<>>)

\* ResamplerClose without the release of the output buffer.
ResamplerCloseKeepsBuf(rs, a) ==
    (IF rs.ctx # "nil" THEN <<"swr_free", "free data">> ELSE <<>>) \o AudioClose(a)

ResamplerClose(rs, a) ==
    (IF rs.ctx # "nil"
        THEN <<"swr_free", "free data">>
             \o (IF rs.buf # "nil" THEN <<"free buf">> ELSE <<>>)
        ELSE <<>>)
    \o AudioClose(a)

Count(log, e) == Cardinality({i \in 1..Len(log) : log[i] = e})

\* The heap after the releases of a Close.
Released(h, log) ==
    [ctx |-> h.ctx - Count(log, "swr_free"), data |-> h.data - Count(log, "free data"),
     buf |-> h.buf - Count(log, "free buf"), codec |-> h.codec - Count(log, "avcodec_close"),
     frame |-> h.frame - Count(log, "av_frame_free")]

\* ------------------------------------------------------------ Typed Reader
\* The stream's Format().
Format(stage, a, rs) == IF stage = "resamp" THEN rs.fmt ELSE a.fmt

\* Accepts taking planar 16-bit storage too.
AcceptsAny16Bit(f) == f.Storage \in {"PackedS16s", "PlanarS16s"}

\* NewPackedS16Stream's acceptance test.
Accepts(f) == f.Storage = "PackedS16s"

NewPackedS16Stream(stage, a, rs) ==
    IF ~Accepts(Format(stage, a, rs))
    THEN [reader |-> [built |-> FALSE, source |-> "nil"], err |-> "sample format mismatch"]
    ELSE [reader |-> [built |-> TRUE, source |-> stage], err |-> "nil"]

\* *data, the first entry of the plane table a read_raw returned: the
\* decoder's frame plane, or the Resampler's first table entry.  An entry
\* never written, or a table with no entry, reads as any pointer at all.
FirstPlane(data, rs) ==
    IF data = "frame" THEN {[blk |-> "frame", off |-> 0]}
    ELSE IF rs.nplanes >= 1 /\ rs.data[1] # Uninit
    THEN {[blk |-> IF rs.bufLive THEN "buf" ELSE "freed buf", off |-> rs.data[1]]}
    ELSE {[blk |-> "buf", off |-> 0], [blk |-> "wild", off |-> 0]}

NoPtr == [blk |-> "none", off |-> 0]

\* NumSamples counting planes instead of channels.
NumSamplesByPlanes(f, nf) == NumPlanes(f) * nf

\* The element count Read computes.
NumSamples(f, nf) == NumChannels(f) * nf

\* Read taking a result with no planes for the end of the stream.
ReadEOFOnNoData(f, raw, ptr) ==
    IF raw.err # "nil" THEN [len |-> 0, ptr |-> NoPtr, err |-> raw.err]
    ELSE IF raw.data = "nil" THEN [len |-> 0, ptr |-> NoPtr, err |-> "EOF"]
    ELSE [len |-> NumSamples(f, raw.nf), ptr |-> ptr, err |-> "nil"]

\* PackedS16Stream.Read on the raw result: the slice (its length and the
\* memory it aliases) and the error.
Read(f, raw, ptr) ==
    LET ns == NumSamples(f, raw.nf)
    IN IF raw.err # "nil" THEN [len |-> 0, ptr |-> NoPtr, err |-> raw.err]
       ELSE IF raw.data = "nil" THEN [len |-> 0, ptr |-> NoPtr, err |-> "nil"]
       ELSE [len |-> ns, ptr |-> ptr, err |-> "nil"]

\* ------------------------------------------------------------ the machine
vars == <<audio, demux, codecBuf, resamp, swrBuf, heap, top, reader, op, cret, aret, rret, pret>>

NoCall == Trace(Ret("nil", 0, "nil"), "none", -1, 0, FALSE, 0)
NoRCall == RTrace(Ret("nil", 0, "nil"), FALSE, FALSE, 0, 0, FALSE, "nil")
NoRead == [len |-> 0, ptr |-> NoPtr, err |-> "nil", ns |-> 0]
\* The last operation: its name, the stages whose read_raw it ran, those
\* among them whose previous read_raw had returned io.EOF, and the releases
\* a Close made, in order.
Op(name, ran, log) ==
    [name |-> name, ran |-> ran, log |-> log,
     afterEOF |-> {st \in ran : (st = "audio" /\ aret.err = "EOF")
                                 \/ (st = "resamp" /\ rret.err = "EOF")}]

\* OpenAudioStream: a fresh stream in the decoder's format, a blank packet.
OpenAudioStream(f) ==
    [fmt |-> f, pktSize |-> 0, pktFull |-> 0, pktPos |-> 0, origData |-> "nil",
     framesEOF |-> FALSE, frame |-> "allocated", codec |-> "open"]

\* The formats the streaming specification runs over: a stereo packed
\* 16-bit decoder at rate MaxRate, converted down to rate 1 in packed 16-bit
\* stereo or up to rate MaxRate + 1 in planar float mono (neither ratio is
\* integral).
SourceFormats ==
    [Rate : {MaxRate}, Storage : {"PackedS16s"}, Layout : {3}]
TargetFormats ==
    [Rate : {1}, Storage : {"PackedS16s"}, Layout : {3}]
    \cup [Rate : {MaxRate + 1}, Storage : {"PlanarFloats"}, Layout : {4}]

InitWith(F) ==
    /\ \E f \in F : /\ audio = OpenAudioStream(f)
                    /\ resamp = NoResampler(f, f)
                    /\ cret = [resample |-> [called |-> FALSE, stream |-> "nil", err |-> "nil", to |-> f],
                               reader |-> [called |-> FALSE, err |-> "nil"]]
    /\ \E left \in {0, MaxPackets} : demux = [left |-> left, unfreed |-> 0]
    /\ codecBuf = 0
    /\ swrBuf = 0
    /\ heap = [ctx |-> 0, data |-> 0, buf |-> 0, codec |-> 1, frame |-> 1]
    /\ top = "audio"
    /\ reader = [built |-> FALSE, source |-> "nil"]
    /\ op = Op("OpenAudioStream", {}, <<>>)
    /\ aret = NoCall
    /\ rret = NoRCall
    /\ pret = NoRead

Init == InitWith(SourceFormats)

\* Close has not been called: the stages may still be used.
Open == op.name # "Close"

\* No read_raw has run yet: the pipeline is still being put together.
Fresh == aret = NoCall /\ rret = NoRCall

\* A caller whose Resample or NewPackedS16Stream failed only cleans up.
Built == cret.resample.err = "nil" /\ cret.reader.err = "nil"

\* Resample(stream, to), called once, before any reader is built.
ResampleTo(F) ==
    /\ Open /\ Fresh /\ Built /\ ~cret.resample.called /\ ~cret.reader.called
    /\ \E to \in F, o \in ResampleOutcomes :
         LET r == Resample(audio, heap, to, o)
         IN /\ resamp' = r.resamp
            /\ heap' = r.heap
            /\ top' = IF r.stream = "nil" THEN top ELSE r.stream
            /\ cret' = [cret EXCEPT !.resample = [called |-> TRUE, stream |-> r.stream,
                                                    err |-> r.err, to |-> to]]
    /\ op' = Op("Resample", {}, <<>>)
    /\ UNCHANGED <<audio, demux, codecBuf, swrBuf, reader, aret, rret, pret>>

\* NewPackedS16Stream(top), called once.
NewReader ==
    /\ Open /\ Fresh /\ Built /\ ~cret.reader.called
    /\ LET r == NewPackedS16Stream(top, audio, resamp)
       IN /\ reader' = r.reader
          /\ cret' = [cret EXCEPT !.reader = [called |-> TRUE, err |-> r.err]]
    /\ op' = Op("NewPackedS16Stream", {}, <<>>)
    /\ UNCHANGED <<audio, demux, codecBuf, resamp, swrBuf, heap, top, aret, rret, pret>>

\* One read_raw call on the stage the caller holds: every outcome, as the
\* new state and the raw result.
TopReadRaw ==
    IF top = "resamp"
    THEN {[r EXCEPT !.ret = r.ret] @@ [ran |-> IF r.ret.pulled THEN {"resamp", "audio"} ELSE {"resamp"},
                                       rret |-> r.ret]
          : r \in ResamplerReadRaw(resamp, heap, audio, demux, codecBuf, swrBuf, aret)}
    ELSE {[resamp |-> resamp, heap |-> heap, audio |-> r.audio, demux |-> r.demux,
           codecBuf |-> r.codecBuf, swrBuf |-> swrBuf, aret |-> r.ret, ret |-> r.ret,
           ran |-> {"audio"}, rret |-> rret]
          : r \in AudioReadRaw(audio, demux, codecBuf)}

Apply(r) ==
    /\ audio' = r.audio
    /\ demux' = r.demux
    /\ codecBuf' = r.codecBuf
    /\ resamp' = r.resamp
    /\ swrBuf' = r.swrBuf
    /\ heap' = r.heap
    /\ aret' = r.aret
    /\ rret' = r.rret

\* A direct read_raw call on the stage the caller holds, while no reader
\* has taken it over.
ReadRaw ==
    /\ Open /\ Built /\ ~reader.built
    /\ \E r \in TopReadRaw :
         /\ Apply(r)
         /\ op' = Op("read_raw", r.ran, <<>>)
    /\ UNCHANGED <<top, reader, cret, pret>>

\* PackedS16Stream.Read.
ReaderRead ==
    /\ Open /\ Built /\ reader.built
    /\ \E r \in TopReadRaw :
         /\ Apply(r)
         /\ op' = Op("Read", r.ran, <<>>)
         /\ \E ptr \in FirstPlane(r.ret.data, r.resamp) :
              pret' = Read(Format(reader.source, r.audio, r.resamp), r.ret, ptr)
                      @@ [ns |-> NumSamples(Format(reader.source, r.audio, r.resamp), r.ret.nf)]
    /\ UNCHANGED <<top, reader, cret>>

\* Close on the stage the caller holds, called once.
Close ==
    /\ Open
    /\ LET log == IF top = "resamp" THEN ResamplerClose(resamp, audio) ELSE AudioClose(audio)
       IN /\ op' = Op("Close", {}, log)
          /\ heap' = Released(heap, log)
          /\ resamp' = IF top = "resamp" THEN [resamp EXCEPT !.ctx = "nil", !.bufLive = FALSE]
                       ELSE resamp
          /\ audio' = [audio EXCEPT !.frame = "nil", !.codec = "closed"]
    /\ UNCHANGED <<demux, codecBuf, swrBuf, top, reader, cret, aret, rret, pret>>

Next ==
    \/ ResampleTo(TargetFormats)
    \/ NewReader
    \/ ReadRaw
    \/ ReaderRead
    \/ Close

Spec == Init /\ [][Next]_vars

\* The constructors alone, over every pair of formats.
InitCtor == InitWith(AudioFormat)

NextCtor ==
    \/ ResampleTo(AudioFormat)
    \/ NewReader

SpecCtor == InitCtor /\ [][NextCtor]_vars

\* The README's read loop on the Decoder Stage alone: the caller keeps
\* calling read_raw, whatever the last call returned.
NextLoop == ReadRaw

SpecLoop == Init /\ [][NextLoop]_vars /\ WF_vars(ReadRaw)

\* The pipeline over packed and planar, mono and stereo formats on both
\* sides of the Resampler.
PlaneSourceFormats ==
    [Rate : {MaxRate}, Storage : {"PackedS16s", "PlanarS16s"}, Layout : {3, 4}]
PlaneTargetFormats ==
    [Rate : {1}, Storage : {"PackedS16s", "PlanarFloats"}, Layout : {3, 4}]

InitPlanes == InitWith(PlaneSourceFormats)

NextPlanes ==
    \/ ResampleTo(PlaneTargetFormats)
    \/ ReadRaw

SpecPlanes == InitPlanes /\ [][NextPlanes]_vars

\* ------------------------------------------------------------- properties
\* The raw result the caller's stage returned last.
Raw == IF top = "resamp" THEN rret ELSE aret

\* C1: Resampler.read_raw returns io.EOF only once its source has returned
\* io.EOF (sourceEOF is set); a converter that emits nothing mid-stream
\* gives a zero-frame, no-error result.
C1_EOFOnlyAfterSourceEOF ==
    (rret.conv /\ rret.err = "EOF") => resamp.sourceEOF

\* C2: a Resampler.read_raw call made after one that returned io.EOF
\* returns io.EOF.
C2_ResamplerEOFStable ==
    "resamp" \in op.afterEOF => rret.err = "EOF"

C4_FrameCountsNonNegative ==
    /\ aret.nf >= 0 /\ rret.nf >= 0
    /\ aret.err # "nil" => (aret.nf = 0 /\ aret.data = "nil")
    /\ rret.err # "nil" => (rret.nf = 0 /\ rret.data = "nil")
    /\ pret.ns >= 0

\* C5: over a Resampler.read_raw call the capacity nf does not shrink; when
\* the converter is invoked nf is at least the ceiling of input frames x
\* target rate / source rate; the buffer is reallocated only when the
\* required capacity exceeds the capacity the call found.
C5_MonotoneBufferGrowth ==
    [][ "resamp" \in op'.ran =>
          /\ resamp'.nf >= resamp.nf
          /\ rret'.conv =>
                resamp'.nf * audio.fmt.Rate >= rret'.inNf * resamp.fmt.Rate
          /\ rret'.realloc => rret'.need > resamp.nf ]_vars

C5_Witness_Grown ==
    /\ rret.conv /\ rret.realloc /\ rret.inNf = MaxSamples
    /\ resamp.nf = rret.need /\ resamp.nf > MaxSamples

\* C6: a direct AudioStream.read_raw call whose packet read and decode both
\* succeed returns the frame and its count when the codec produced one,
\* io.EOF when it produced none and framesEOF is set, and a zero-length
\* result with no error when it produced none and framesEOF is not set.
C6_DecoderTrichotomy ==
    (op.name \in {"read_raw", "Read"} /\ top = "audio"
       /\ aret.rf # "error" /\ aret.n >= 0) =>
        /\ aret.got =>
              (aret.data = "frame" /\ aret.nf = aret.ns /\ aret.err = "nil")
        /\ (~aret.got /\ audio.framesEOF) =>
              (aret.data = "nil" /\ aret.nf = 0 /\ aret.err = "EOF")
        /\ (~aret.got /\ ~audio.framesEOF) =>
              (aret.data = "nil" /\ aret.nf = 0 /\ aret.err = "nil")

C6_Witness_DrainedFrame ==
    /\ op.name = "read_raw" /\ top = "audio" /\ audio.framesEOF
    /\ aret.rf \in {"EOF", "none"} /\ aret.sub = 0 /\ aret.got
    /\ aret.data = "frame" /\ aret.nf = MaxSamples /\ aret.err = "nil"

\* C7: Resample to a format equal in rate, storage and layout returns the
\* source itself, with no error and nothing allocated; to any other format,
\* when construction succeeds, it returns a new Resampler on the source
\* whose Format() is the target.
C7_IdentityOptimization ==
    cret.resample.called =>
        LET to == cret.resample.to
            same == /\ audio.fmt.Rate = to.Rate
                    /\ audio.fmt.Storage = to.Storage
                    /\ audio.fmt.Layout = to.Layout
        IN /\ same => /\ cret.resample.stream = "audio" /\ cret.resample.err = "nil"
                      /\ top = "audio" /\ heap.ctx = 0 /\ heap.data = 0
           /\ (~same /\ cret.resample.err = "nil") =>
                      /\ cret.resample.stream = "resamp" /\ top = "resamp"
                      /\ resamp.fmt = to /\ resamp.source = "audio"
                      /\ resamp.ctx = "allocated"

C7_Witness_SameFormat ==
    /\ cret.resample.called /\ cret.resample.to = audio.fmt
    /\ cret.resample.stream = "audio" /\ heap.ctx = 0

\* C8: Close on a Resampler over the decoder releases the converter
\* context, the plane table and (if one is allocated) the output buffer,
\* then the codec and the frame, each once, and leaves none of them live.
C8_CloseCascade ==
    (op.name = "Close" /\ top = "resamp") =>
        /\ op.log = <<"swr_free", "free data">>
                     \o (IF resamp.buf = "allocated" THEN <<"free buf">> ELSE <<>>)
                     \o <<"avcodec_close", "av_frame_free">>
        /\ heap = [ctx |-> 0, data |-> 0, buf |-> 0, codec |-> 0, frame |-> 0]

C8_Witness_ClosedWithBuffer ==
    /\ op.name = "Close" /\ top = "resamp" /\ resamp.nf > 0
    /\ op.log = <<"swr_free", "free data", "free buf", "avcodec_close", "av_frame_free">>

\* C9: NewPackedS16Stream returns a reader and no error exactly when the
\* source's storage is packed signed 16-bit, a format-mismatch error and no
\* reader otherwise, and runs neither read_raw nor Close.
C9_ReaderConstruction ==
    cret.reader.called =>
        LET storage == IF top = "resamp" THEN resamp.fmt.Storage ELSE audio.fmt.Storage
        IN /\ storage = "PackedS16s" =>
                (cret.reader.err = "nil" /\ reader.built /\ reader.source = top)
           /\ storage # "PackedS16s" =>
                (cret.reader.err = "sample format mismatch" /\ ~reader.built)
           /\ op.name = "NewPackedS16Stream" =>
                (op.ran = {} /\ op.log = <<>> /\ aret = NoCall /\ rret = NoRCall
                 /\ audio.codec = "open")

C9_Witness_Mismatch ==
    /\ cret.reader.called /\ top = "resamp" /\ resamp.fmt.Storage = "PlanarS16s"
    /\ cret.reader.err = "sample format mismatch" /\ ~reader.built

\* C10: Read pulls one raw result from its source; with planes and no
\* error the slice has channels x frames elements and starts at the
\* source's first plane; with no planes and no error it is empty.
C10_ReadElementCount ==
    op.name = "Read" =>
        LET f == IF top = "resamp" THEN resamp.fmt ELSE audio.fmt
        IN /\ reader.source = top /\ top \in op.ran
           /\ (Raw.data # "nil" /\ Raw.err = "nil") =>
                /\ pret.len = PopCount(f.Layout) * Raw.nf
                /\ pret.ptr \in FirstPlane(Raw.data, resamp)
                /\ pret.err = "nil"
           /\ (Raw.data = "nil" /\ Raw.err = "nil") =>
                (pret.len = 0 /\ pret.err = "nil")

C10_Witness_FullSlice ==
    /\ op.name = "Read" /\ top = "resamp" /\ rret.data = "resamp.data"
    /\ rret.err = "nil" /\ rret.nf > 0 /\ pret.len = 2 * rret.nf
    /\ pret.ptr = [blk |-> "buf", off |-> 0]

\* C11: Read returns io.EOF exactly when its source's read_raw returned
\* io.EOF in that call, returns any other source error as it is with an
\* empty slice, and returns an empty slice with no error when the source
\* returned zero frames and no error.
C11_ReadStatusPassThrough ==
    op.name = "Read" =>
        /\ pret.err = "EOF" <=> Raw.err = "EOF"
        /\ Raw.err # "nil" => (pret.err = Raw.err /\ pret.len = 0 /\ pret.ptr = NoPtr)
        /\ (Raw.err = "nil" /\ Raw.nf = 0) => (pret.err = "nil" /\ pret.len = 0)

C11_Witness_ZeroFramesNoError ==
    /\ op.name = "Read" /\ Raw.err = "nil" /\ Raw.nf = 0 /\ Raw.data = "nil"
    /\ pret.err = "nil" /\ pret.len = 0 /\ ~audio.framesEOF

\* C12: with a packet source that never fails, a codec that never reports
\* an error and a caller that keeps calling, AudioStream.read_raw
\* eventually returns io.EOF.
C12_EventualEOF ==
    [](aret.rf # "error" /\ aret.n >= 0) => <>(aret.err = "EOF")

\* C12, for a codec that also consumes at least one byte of every
\* non-empty packet it is given: read_raw eventually returns io.EOF.
C12_EventualEOFWithProgress ==
    [](aret.rf # "error" /\ aret.n >= 0 /\ (aret.sub > 0 => aret.n >= 1))
        => <>(aret.err = "EOF")

C12_Witness_EOFAfterAllPackets ==
    /\ aret.err = "EOF" /\ audio.framesEOF /\ demux.left = 0
    /\ demux.unfreed = MaxPackets /\ codecBuf = 0 /\ top = "audio"

\* C13: a read_raw call whose packet read fails with an error other than
\* end-of-stream returns that error with no planes and frame count 0,
\* submits nothing to the codec and leaves framesEOF unset; framesEOF is
\* set only in a call whose packet read reported end-of-stream.
C13_PacketReadFailure ==
    [][ "audio" \in op'.ran =>
          /\ aret'.rf = "error" =>
                /\ aret'.err = "demux error" /\ aret'.data = "nil" /\ aret'.nf = 0
                /\ aret'.sub = -1
                /\ ~audio'.framesEOF /\ ~audio.framesEOF
          /\ (audio'.framesEOF /\ ~audio.framesEOF) => aret'.rf = "EOF" ]_vars

C13_Witness_FailedMidStream ==
    /\ "audio" \in op.ran /\ aret.rf = "error" /\ aret.err = "demux error"
    /\ aret.sub = -1 /\ demux.left = 1 /\ ~audio.framesEOF

\* C14: a read_raw call in which the codec reports a negative consumed
\* count returns an error with no planes and frame count 0, and the packet's
\* cursor and remaining size are what they were before the call.
C14_DecodeFailureKeepsPacket ==
    [][ ("audio" \in op'.ran /\ aret'.n < 0) =>
          /\ aret'.err = "decode error" /\ aret'.data = "nil" /\ aret'.nf = 0
          /\ audio'.pktSize = audio.pktSize /\ audio'.pktPos = audio.pktPos ]_vars

\* C14, with the packet as it was submitted: a read_raw call in which the
\* codec reports a negative consumed count returns an error with no planes
\* and frame count 0, and leaves the packet's cursor and remaining size as
\* they were when the packet was submitted: as before the call when no
\* packet was pulled in it, as pulled (cursor 0, full size) otherwise.
C14_DecodeFailureKeepsSubmittedPacket ==
    [][ ("audio" \in op'.ran /\ aret'.n < 0) =>
          /\ aret'.err = "decode error" /\ aret'.data = "nil" /\ aret'.nf = 0
          /\ audio'.pktSize = aret'.sub
          /\ aret'.rf = "none" =>
                (audio'.pktSize = audio.pktSize /\ audio'.pktPos = audio.pktPos)
          /\ aret'.rf = "ok" =>
                (audio'.pktSize = audio'.pktFull /\ audio'.pktPos = 0) ]_vars

C14_Witness_FailedOnRemainder ==
    /\ "audio" \in op.ran /\ aret.n < 0 /\ aret.rf = "none" /\ aret.err = "decode error"
    /\ audio.pktFull = MaxPktSize /\ audio.pktSize = 1 /\ audio.pktPos = MaxPktSize - 1

\* C15: while the Resampler holds an output buffer, its plane table has
\* exactly NumPlanes() entries of the target format, entry i (from 0) is at
\* offset i x capacity x bytes per sample, and every plane of capacity
\* frames lies inside the allocated block.
C15_PlaneTable ==
    (top = "resamp" /\ resamp.bufLive) =>
        LET np == NumPlanes(resamp.fmt)
            bpc == resamp.nf * BytesPerSample(resamp.fmt.Storage)
            plane == IF resamp.fmt.Storage \in PackedFmts
                     THEN bpc * NumChannels(resamp.fmt) ELSE bpc
        IN /\ Len(resamp.data) = np
           /\ \A i \in 1..np :
                 /\ resamp.data[i] = (i - 1) * bpc
                 /\ resamp.data[i] + plane <= resamp.bufBytes

\* C16: read_raw pulls a packet exactly when the in-flight packet's
\* remaining size is 0 and framesEOF is not set; a packet with bytes left is
\* resubmitted from its cursor without a pull, the cursor and the remaining
\* size always adding up to the packet's size as pulled; once framesEOF is
\* set the packet source is not read again.
C16_PullDiscipline ==
    [][ "audio" \in op'.ran =>
          /\ aret'.rf # "none" <=> (audio.pktSize = 0 /\ ~audio.framesEOF)
          /\ aret'.rf = "none" => demux' = demux
          /\ audio.pktSize > 0 =>
                /\ aret'.sub = audio.pktSize
                /\ audio'.pktFull = audio.pktFull
                /\ audio'.pktPos + audio'.pktSize = audio.pktPos + audio.pktSize
          /\ audio'.pktPos + audio'.pktSize = audio'.pktFull ]_vars

C16_Witness_RemainderResubmitted ==
    /\ "audio" \in op.ran /\ aret.rf = "none" /\ aret.sub = 1 /\ aret.n >= 1
    /\ audio.pktFull = MaxPktSize /\ audio.pktPos = MaxPktSize /\ audio.pktSize = 0
    /\ ~audio.framesEOF

\* C17: after a successful decode the packet's remaining size is the size
\* submitted less min(consumed, submitted) and the cursor has advanced by
\* the same amount; the remaining size stays between 0 and the packet's
\* size as pulled, also when the codec reports more than was submitted.
C17_ConsumedByteClamp ==
    [][ ("audio" \in op'.ran /\ aret'.sub >= 0 /\ aret'.n >= 0) =>
          LET taken == Min(aret'.n, aret'.sub)
              from == IF aret'.rf = "none" THEN audio.pktPos ELSE 0
          IN /\ audio'.pktSize = aret'.sub - taken
             /\ audio'.pktPos = from + taken
             /\ 0 <= audio'.pktSize /\ audio'.pktSize <= audio'.pktFull ]_vars

C17_Witness_OverReported ==
    /\ "audio" \in op.ran /\ aret.sub = MaxPktSize /\ aret.n = MaxPktSize + 1
    /\ audio.pktSize = 0 /\ audio.pktPos = MaxPktSize /\ aret.err = "nil"

\* C18: a read_raw call made with framesEOF set submits an empty packet;
\* framesEOF is set only by a call that found the in-flight packet used up
\* (and that call submits an empty packet too); framesEOF is never cleared.
C18_DrainSubmissions ==
    [][ /\ audio.framesEOF => audio'.framesEOF
        /\ "audio" \in op'.ran =>
              /\ audio.framesEOF => (aret'.sub = 0 /\ aret'.rf = "none")
              /\ (audio'.framesEOF /\ ~audio.framesEOF) =>
                    (audio.pktSize = 0 /\ aret'.sub = 0 /\ audio'.pktSize = 0) ]_vars

C18_Witness_DrainCall ==
    /\ "audio" \in op.ran /\ audio.framesEOF /\ aret.rf = "none" /\ aret.sub = 0
    /\ audio.pktSize = 0 /\ demux.unfreed = MaxPackets

\* C19: sourceEOF is set exactly by a Resampler.read_raw call whose source
\* returned io.EOF, and is never cleared; a call made with sourceEOF set
\* does not call the source's read_raw, does not resize the buffer, and
\* invokes the converter with no input planes and input frame count 0.
C19_ResamplerDrainMode ==
    [][ /\ resamp.sourceEOF => resamp'.sourceEOF
        /\ "resamp" \in op'.ran =>
              /\ (resamp'.sourceEOF /\ ~resamp.sourceEOF)
                    <=> (rret'.pulled /\ aret'.err = "EOF")
              /\ resamp.sourceEOF =>
                    /\ ~rret'.pulled /\ "audio" \notin op'.ran
                    /\ audio' = audio /\ demux' = demux /\ codecBuf' = codecBuf
                    /\ ~rret'.realloc /\ resamp'.nf = resamp.nf /\ resamp'.buf = resamp.buf
                    /\ heap' = heap
                    /\ rret'.conv /\ rret'.inData = "nil" /\ rret'.inNf = 0 ]_vars

C19_Witness_FlushedInDrain ==
    /\ "resamp" \in op.ran /\ resamp.sourceEOF /\ ~rret.pulled /\ rret.conv
    /\ rret.inNf = 0 /\ rret.inData = "nil" /\ rret.nf > 0 /\ rret.err = "nil"

\* C20: a Resampler.read_raw call whose source returned an error other
\* than io.EOF returns that error with no planes and frame count 0, does
\* not invoke the converter and leaves sourceEOF, the capacity and the
\* buffer as they were; a call made with sourceEOF unset pulls from the
\* source.
C20_UpstreamErrorPropagation ==
    [][ "resamp" \in op'.ran =>
          /\ (rret'.pulled /\ aret'.err \notin {"nil", "EOF"}) =>
                /\ rret'.err = aret'.err /\ rret'.data = "nil" /\ rret'.nf = 0
                /\ ~rret'.conv /\ swrBuf' = swrBuf
                /\ resamp' = resamp /\ heap' = heap /\ ~resamp'.sourceEOF
          /\ ~resamp.sourceEOF => (rret'.pulled /\ "audio" \in op'.ran) ]_vars

C20_Witness_ErrorWithBufferKept ==
    /\ "resamp" \in op.ran /\ rret.pulled /\ rret.err = "decode error"
    /\ aret.err = "decode error" /\ ~rret.conv
    /\ resamp.nf > 0 /\ resamp.bufLive /\ ~resamp.sourceEOF

\* C21: a Resampler.read_raw call whose source returned frame count 0 and
\* no error returns no planes, frame count 0 and no error, does not invoke
\* the converter, does not resize the buffer and does not set sourceEOF.
C21_ZeroFramesPassedOn ==
    [][ ("resamp" \in op'.ran /\ rret'.pulled
           /\ aret'.err = "nil" /\ aret'.nf = 0) =>
          /\ rret'.data = "nil" /\ rret'.nf = 0 /\ rret'.err = "nil"
          /\ ~rret'.conv /\ swrBuf' = swrBuf
          /\ ~rret'.realloc /\ resamp' = resamp /\ heap' = heap
          /\ ~resamp'.sourceEOF ]_vars

C21_Witness_ZeroFramesMidStream ==
    /\ "resamp" \in op.ran /\ rret.pulled /\ aret.err = "nil" /\ aret.nf = 0
    /\ rret.err = "nil" /\ rret.nf = 0 /\ ~rret.conv
    /\ resamp.nf > 0 /\ ~resamp.sourceEOF /\ demux.left > 0

\* C22: while the Resampler is in use, a recorded capacity nf > 0 means a
\* live output buffer of at least nf frames per plane with every plane
\* pointer inside it, and the converter is never invoked on plane pointers
\* into a freed buffer.
C22_BufferMatchesCapacity ==
    (top = "resamp" /\ Open) =>
        /\ resamp.nf > 0 =>
              /\ resamp.buf = "allocated" /\ resamp.bufLive /\ heap.buf = 1
              /\ resamp.bufBytes >= resamp.nf * BytesPerSample(resamp.fmt.Storage)
                                               * NumChannels(resamp.fmt)
              /\ \A i \in 1..Len(resamp.data) :
                    resamp.data[i] >= 0 /\ resamp.data[i] < resamp.bufBytes
        /\ (rret.conv /\ resamp.nf > 0) => resamp.bufLive

\* C23: every packet pulled from the packet source is released before the
\* next one is pulled: at most one pulled packet is unreleased at any time.
C23_AtMostOneUnreleasedPacket ==
    demux.unfreed <= 1
====
